---- MODULE Spec2Model ----
(***************************************************************************)
(* A model of cargo-3ds (src/src/main.rs): the driver that checks the      *)
(* rustc toolchain, cross-compiles an ELF with cargo, packs an SMDH with   *)
(* smdhtool, assembles a 3DSX with 3dsxtool and optionally uploads it with *)
(* 3dslink.  One run of the process is one behaviour: the argument vector  *)
(* and the environment are fixed at process start, everything the driver   *)
(* reads later (rustc's version, cargo's metadata, the filesystem, the     *)
(* children's exit statuses) is chosen when the code reads it.             *)
(*                                                                         *)
(* Text is modelled in two ways.  Arguments, paths and environment values  *)
(* are TLA+ strings, concatenated with \o as format! and + do.  The rustc  *)
(* commit date, which the code splits and parses, is a sequence of         *)
(* one-character strings.  Option<T> is a sequence of length 0 or 1.       *)
(***************************************************************************)
EXTENDS Integers, Sequences, FiniteSets, TLC

(***************************************************************************)
(* Bounds of the model.                                                    *)
(***************************************************************************)
\* user arguments after the verb
MaxUserArgs == 2
\* pieces between dashes in the texts given to CommitDate::parse
MaxDatePieces == 4
\* children exit with a code in 0..MaxExitCode, or are killed by a signal
MaxExitCode == 2

None == << >>
Some(x) == << x >>

(***************************************************************************)
(* CommitDate (main.rs 16-33) and the pinned minimums (41-42).             *)
(***************************************************************************)
I32Max == 2147483647

DigitChars == << "0", "1", "2", "3", "4", "5", "6", "7", "8", "9" >>

IsDigit(c) == \E i \in 1..10 : DigitChars[i] = c

DigitVal(c) == (CHOOSE i \in 1..10 : DigitChars[i] = c) - 1

\* the digits of ds as a number; None when it does not fit an i32
RECURSIVE DigitsValue(_, _)
DigitsValue(ds, acc) ==
    IF ds = << >> THEN Some(acc)
    ELSE LET d == DigitVal(Head(ds)) IN
         IF acc > (I32Max - d) \div 10 THEN None
         ELSE DigitsValue(Tail(ds), acc * 10 + d)

\* str::parse::<i32>: an optional sign, then at least one digit, nothing else
ParseI32(s) ==
    LET body == IF s # << >> /\ Head(s) \in {"+", "-"} THEN Tail(s) ELSE s
        neg  == s # << >> /\ Head(s) = "-"
    IN  IF body = << >> \/ \E i \in 1..Len(body) : ~IsDigit(body[i]) THEN None
        ELSE LET v == DigitsValue(body, 0) IN
             IF v = None THEN None
             ELSE IF neg THEN Some(0 - v[1]) ELSE v

\* str::split("-"): the pieces between the separators, empty pieces kept
RECURSIVE SplitDash(_, _)
SplitDash(s, cur) ==
    IF s = << >> THEN << cur >>
    ELSE IF Head(s) = "-" THEN << cur >> \o SplitDash(Tail(s), << >>)
    ELSE SplitDash(Tail(s), Append(cur, Head(s)))

\* CommitDate::parse: the first three pieces, each an i32; further pieces ignored
CommitDateParse(date) ==
    LET iter == SplitDash(date, << >>) IN
    IF Len(iter) < 3 THEN None
    ELSE LET year  == ParseI32(iter[1])
             month == ParseI32(iter[2])
             day   == ParseI32(iter[3])
         IN  IF year = None \/ month = None \/ day = None THEN None
             ELSE Some([year |-> year[1], month |-> month[1], day |-> day[1]])

RECURSIVE DigitsOf(_)
\* the decimal digits of n >= 0, most significant first
DigitsOf(n) ==
    IF n < 10 THEN << DigitChars[n + 1] >>
    ELSE Append(DigitsOf(n \div 10), DigitChars[(n % 10) + 1])

RECURSIVE Zeros(_)
Zeros(k) == IF k <= 0 THEN << >> ELSE << "0" >> \o Zeros(k - 1)

\* {:0w} of an i32: the sign, then zeros up to the width w, then the digits
ShowPadded(n, w) ==
    LET sign == IF n < 0 THEN << "-" >> ELSE << >>
        ds   == DigitsOf(IF n < 0 THEN 0 - n ELSE n)
    IN  sign \o Zeros(w - Len(sign) - Len(ds)) \o ds

\* mutation of CommitDateDisplay: month and day written without padding
CommitDateDisplayUnpadded(d) ==
    ShowPadded(d.year, 4) \o << "-" >> \o ShowPadded(d.month, 1)
      \o << "-" >> \o ShowPadded(d.day, 1)

\* Display for CommitDate (35-39): "{:04}-{:02}-{:02}"
CommitDateDisplay(d) ==
    ShowPadded(d.year, 4) \o << "-" >> \o ShowPadded(d.month, 2)
      \o << "-" >> \o ShowPadded(d.day, 2)

\* mutation of CommitDateGreater: day compared before month
CommitDateGreaterSwapped(a, b) ==
    \/ a.year > b.year
    \/ a.year = b.year /\ a.day > b.day
    \/ a.year = b.year /\ a.day = b.day /\ a.month > b.month

\* #[derive(Ord)] on CommitDate: lexicographic on (year, month, day)
CommitDateGreater(a, b) ==
    \/ a.year > b.year
    \/ a.year = b.year /\ a.month > b.month
    \/ a.year = b.year /\ a.month = b.month /\ a.day > b.day

MINIMUM_COMMIT_DATE == [year |-> 2021, month |-> 10, day |-> 1]

MINIMUM_RUSTC_VERSION == [major |-> 1, minor |-> 56, patch |-> 0, pre |-> FALSE]

\* semver's order: major, minor, patch, then a pre-release is below the release
VersionGreater(a, b) ==
    \/ a.major > b.major
    \/ a.major = b.major /\ a.minor > b.minor
    \/ a.major = b.major /\ a.minor = b.minor /\ a.patch > b.patch
    \/ a.major = b.major /\ a.minor = b.minor /\ a.patch = b.patch
         /\ ~a.pre /\ b.pre

\* rustc_version::Channel is declared Dev, Nightly, Beta, Stable and derives
\* PartialOrd, so Dev < Nightly < Beta < Stable
ChannelRank(c) ==
    CASE c = "dev" -> 0 [] c = "nightly" -> 1 [] c = "beta" -> 2 [] c = "stable" -> 3

\* mutation of ChannelTooStable: beta let through
ChannelTooStableLoose(channel) == ChannelRank(channel) > ChannelRank("beta")

\* main.rs 81: rustc_version.channel > Channel::Nightly
ChannelTooStable(channel) == ChannelRank(channel) > ChannelRank("nightly")

\* main.rs 90
OldVersion(semver) == VersionGreater(MINIMUM_RUSTC_VERSION, semver)

\* main.rs 92-96, for a date that parsed
OldCommit(date) == CommitDateGreater(MINIMUM_COMMIT_DATE, date)

(***************************************************************************)
(* What the driver reads from outside.                                     *)
(***************************************************************************)
Channels == {"dev", "nightly", "beta", "stable"}

Semvers ==
    { [major |-> 1, minor |-> 55, patch |-> 0, pre |-> FALSE],
      [major |-> 1, minor |-> 56, patch |-> 0, pre |-> TRUE],
      [major |-> 1, minor |-> 56, patch |-> 0, pre |-> FALSE],
      [major |-> 1, minor |-> 57, patch |-> 0, pre |-> TRUE] }

\* commit dates as rustc prints them, and one text that is no date
CommitDateTexts ==
    { << "2", "0", "2", "0", "-", "1", "2", "-", "3", "1" >>,
      << "2", "0", "2", "1", "-", "0", "9", "-", "3", "0" >>,
      << "2", "0", "2", "1", "-", "1", "0", "-", "0", "1" >>,
      << "2", "0", "2", "2", "-", "0", "1", "-", "0", "1" >>,
      << "2", "0", "2", "1", "-", "1", "0" >> }

VersionMetas ==
    [ channel : Channels, semver : Semvers,
      commit_date : {None} \cup {Some(d) : d \in CommitDateTexts} ]

ProgramName == "cargo-3ds"

SecondWords == {"3ds", "--release"}

VerbWords == {"build", "link", "clean", "--release"}

UserWords == {"--release", "--Release", "--verbose"}

RECURSIVE SeqsUpTo(_, _)
SeqsUpTo(S, n) ==
    IF n = 0 THEN { << >> }
    ELSE LET shorter == SeqsUpTo(S, n - 1) IN
         shorter \cup { Append(t, x) : t \in shorter, x \in S }

\* <driver> 3ds <verb> [user args], and the vectors cut short before the verb
ArgVectors ==
    { << ProgramName >> } \cup { << ProgramName, s >> : s \in SecondWords }
    \cup { << ProgramName, s, v >> \o u :
             s \in SecondWords, v \in VerbWords, u \in SeqsUpTo(UserWords, MaxUserArgs) }

Environments ==
    [ RUSTFLAGS : {None, Some("-O")}, DEVKITPRO : {None, Some("/opt/devkitpro")} ]

PackageNames == {"hello", "app"}

AuthorLists == { << >>, << "alice" >>, << "alice", "bob" >> }

Descriptions == {None, Some(""), Some("A game")}

\* what `cargo metadata` yields: an error, a workspace without a root package,
\* or the root package
MetadataResults ==
    { [result |-> r, name |-> "", authors |-> << >>, description |-> None] :
        r \in {"error", "no_root"} }
    \cup [ result : {"ok"}, name : PackageNames, authors : AuthorLists,
           description : Descriptions ]

MetadataUnread == [result |-> "unread", name |-> "", authors |-> << >>, description |-> None]

\* ExitStatus by its code(): Some(0..MaxExitCode), or None for a signal
ExitStatuses == { [code |-> Some(c)] : c \in 0..MaxExitCode } \cup { [code |-> None] }

Stages == {"A", "B", "C", "U"}

NoChild == [state |-> "none", program |-> "", argv |-> << >>, rustflags |-> None, status |-> None]

\* #[derive(Default)] CTRConfig
NoConfig == [name |-> "", author |-> "", description |-> "", icon |-> ""]

VARIABLES
    pc,                  \* the driver's position
    argv,                \* env::args()
    env,                 \* the driver's own environment
    rustc_version,       \* Option: check_rust_version's local
    optimization_level,
    must_link,
    args,                \* what is left of env::args().skip(2) after the verb
    metadata,            \* what the metadata query returned
    icon_exists,         \* ./icon.png at probe time: "unread", "yes" (it opens),
                         \* "no" (absent), "unreadable" (there, but open fails)
    romfs_readable,      \* "unread", "yes", "no": ./romfs before Stage C
    app_conf,
    child,               \* per stage: the spawned child
    log,                 \* the begin and end of each component, in order
    term,                \* "running", or how the driver ended
    exit_code,
    probe_rustflags,     \* Option: the RUSTFLAGS `cargo metadata` was run with
    date_pc,             \* CommitDate on its own: "idle", "text", "parsed", "shown"
    date_text,           \* the text given to CommitDate::parse
    date_parsed,         \* Option: what parse returned
    date_shown           \* the parsed date as Display writes it

vars == << pc, argv, env, rustc_version, optimization_level, must_link, args,
           metadata, icon_exists, romfs_readable, app_conf, child, log, term,
           exit_code, probe_rustflags, date_pc, date_text, date_parsed,
           date_shown >>

dateVars == << date_pc, date_text, date_parsed, date_shown >>

\* std's runtime exits with 101 when main panics
PanicExitCode == 101

NoExitCode == 0 - 1

Ev(c, e) == [c |-> c, e |-> e]

Init ==
    /\ pc = "version_meta"
    /\ argv \in ArgVectors
    /\ env \in Environments
    /\ rustc_version = None
    /\ optimization_level = ""
    /\ must_link = FALSE
    /\ args = << >>
    /\ metadata = MetadataUnread
    /\ icon_exists = "unread"
    /\ romfs_readable = "unread"
    /\ app_conf = NoConfig
    /\ child = [k \in Stages |-> NoChild]
    /\ log = << >>
    /\ term = "running"
    /\ exit_code = NoExitCode
    /\ probe_rustflags = None
    /\ date_pc = "idle"
    /\ date_text = << >>
    /\ date_parsed = None
    /\ date_shown = << >>

\* process::exit(code)
Exit(code) == pc' = "exited" /\ term' = "exit" /\ exit_code' = code

\* panic!, or unwrap/expect/index on a failure
Panic == pc' = "exited" /\ term' = "panic" /\ exit_code' = PanicExitCode

\* mutation of MainAfter: get_metadata called before build_elf
MainAfterProbeFirst(f, ml) ==
    CASE f = "check_rust_version" -> "parse_args"
      [] f = "parse_args" -> "get_metadata"
      [] f = "get_metadata" -> "build_elf"
      [] f = "build_elf" -> "build_3dsx"
      [] f = "build_3dsx" -> IF ml THEN "link" ELSE "return"
      [] f = "link" -> "return"

\* main's sequence of calls (44-76): where control goes when f returns
MainAfter(f, ml) ==
    CASE f = "check_rust_version" -> "parse_args"
      [] f = "parse_args" -> "build_elf"
      [] f = "build_elf" -> "get_metadata"
      [] f = "get_metadata" -> "build_3dsx"
      [] f = "build_3dsx" -> IF ml THEN "link" ELSE "return"
      [] f = "link" -> "return"

Range(q) == { q[i] : i \in 1..Len(q) }

(***************************************************************************)
(* Toolchain gate: check_rust_version (78-109).  The version query runs    *)
(* rustc and blocks on it, so it is a step of its own.                     *)
(***************************************************************************)
VersionMetaQuery ==
    /\ pc = "version_meta"
    /\ log' = Append(log, Ev("Gate", "begin"))
    /\ \/ \* version_meta() is an Err: unwrap panics
          /\ Panic
          /\ UNCHANGED rustc_version
       \/ \E vm \in VersionMetas :
            /\ rustc_version' = Some(vm)
            /\ pc' = "check_rust_version"
            /\ UNCHANGED << term, exit_code >>
    /\ UNCHANGED << dateVars, probe_rustflags >>
    /\ UNCHANGED << argv, env, optimization_level, must_link, args, metadata,
                    icon_exists, romfs_readable, app_conf, child >>

CheckRustVersion ==
    /\ pc = "check_rust_version"
    /\ LET v == rustc_version[1]
           parsed == IF v.commit_date = None THEN None
                     ELSE CommitDateParse(v.commit_date[1])
       IN  IF ChannelTooStable(v.channel)
           THEN Exit(1) /\ UNCHANGED << rustc_version, log >>
           ELSE IF v.commit_date # None /\ parsed = None
           THEN \* expect("could not parse `rustc --version` commit date")
                Panic /\ UNCHANGED << rustc_version, log >>
           ELSE IF OldVersion(v.semver) \/ (parsed # None /\ OldCommit(parsed[1]))
           THEN Exit(1) /\ UNCHANGED << rustc_version, log >>
           ELSE /\ pc' = MainAfter("check_rust_version", must_link)
                /\ rustc_version' = None
                /\ log' = Append(log, Ev("Gate", "end"))
                /\ UNCHANGED << term, exit_code >>
    /\ UNCHANGED << dateVars, probe_rustflags >>
    /\ UNCHANGED << argv, env, optimization_level, must_link, args, metadata,
                    icon_exists, romfs_readable, app_conf, child >>

(***************************************************************************)
(* main 47-66: the optimization level and the verb.                        *)
(***************************************************************************)
\* mutation of OptimizationLevel: the first two positions not searched
OptimizationLevelIgnoringPrefix(av) ==
    IF "--release" \in Range(SubSeq(av, 3, Len(av))) THEN "release" ELSE "debug"

\* 48-51: args.contains("--release") over the whole argument vector
OptimizationLevel(av) ==
    IF "--release" \in Range(av) THEN "release" ELSE "debug"

\* 54-56: env::args().skip(2).next()
Command(av) == IF Len(av) >= 3 THEN Some(av[3]) ELSE None

\* what the iterator still holds after the verb was taken
RestArgs(av) == SubSeq(av, 4, Len(av))

\* mutation of VerbKnown: any verb taken
VerbKnownLoose(s) == TRUE

\* 60-64: the verbs that do not panic
VerbKnown(s) == s \in {"build", "link"}

\* mutation of MustLink: the two verbs exchanged
MustLinkInverted(s) == s = "build"

\* 61-62: "build" => false, "link" => true
MustLink(s) == s = "link"

ParseArgs ==
    /\ pc = "parse_args"
    /\ optimization_level' = OptimizationLevel(argv)
    /\ LET command == Command(argv) IN
       IF command = None \/ ~VerbKnown(command[1])
       THEN /\ Panic
            /\ UNCHANGED << must_link, args >>
       ELSE /\ must_link' = MustLink(command[1])
            /\ args' = RestArgs(argv)
            /\ pc' = MainAfter("parse_args", must_link')
            /\ UNCHANGED << term, exit_code >>
    /\ UNCHANGED << dateVars, probe_rustflags >>
    /\ UNCHANGED << argv, env, rustc_version, metadata, icon_exists,
                    romfs_readable, app_conf, child, log >>

(***************************************************************************)
(* Children: Command::spawn, Child::wait and the exit-code block that      *)
(* follows every wait (133-140, 182-189, 210-217, 231-238).                *)
(***************************************************************************)
\* mutation of Success: any exit code counts, only a signal fails
SuccessOnAnyCode(status) == status.code # None

\* ExitStatus::success
Success(status) == status.code = Some(0)

\* mutation of ExitCodeOf: the child's code dropped
ExitCodeOfAlwaysOne(status) == 1

\* match status.code() { Some(i) => i, None => 1 }
ExitCodeOf(status) == IF status.code = None THEN 1 ELSE status.code[1]

\* a Command on which .env is not called runs its child with the driver's
\* environment (144, 167, 191, 221)
InheritedRustflags(e) == e.RUSTFLAGS

\* spawn().unwrap(): the child runs, or the tool could not be started and
\* unwrap panics
Spawn(k, program, cargv, rustflags, waitpc) ==
    \/ /\ child' = [child EXCEPT ![k] =
                      [state |-> "running", program |-> program, argv |-> cargv,
                       rustflags |-> rustflags, status |-> None]]
       /\ log' = Append(log, Ev(k, "begin"))
       /\ pc' = waitpc
       /\ UNCHANGED << term, exit_code >>
    \/ /\ child' = [child EXCEPT ![k].state = "spawn_failed"]
       /\ Panic
       /\ UNCHANGED log

\* mutation of Wait: the driver goes on without waiting for the child
WaitNotBlocking(k, nextpc) ==
    /\ pc' = nextpc
    /\ UNCHANGED << child, log, term, exit_code >>

\* wait().unwrap() and the status check (wait on a child the driver owns and
\* has not waited for is taken to return its status); on success control goes
\* to nextpc
Wait(k, nextpc) ==
    \E status \in ExitStatuses :
      /\ child' = [child EXCEPT ![k].state = "exited", ![k].status = Some(status)]
      /\ log' = Append(log, Ev(k, "end"))
      /\ IF Success(status)
         THEN pc' = nextpc /\ UNCHANGED << term, exit_code >>
         ELSE Exit(ExitCodeOf(status))

(***************************************************************************)
(* Stage A: build_elf (111-141).                                           *)
(***************************************************************************)
LINK_ARGS ==
    "-Clink-arg=-specs=3dsx.specs -Clink-arg=-z -Clink-arg=muldefs -Clink-arg=-D__3DS__"

\* 112-113: env::var("RUSTFLAGS").unwrap_or("".into()) + "..."
RustFlags(e) == (IF e.RUSTFLAGS = None THEN "" ELSE e.RUSTFLAGS[1]) \o LINK_ARGS

\* mutation of CargoArgs: --release filtered out
CargoArgsDroppingRelease(rest) ==
    << "build", "-Z", "unstable-options", "-Z", "build-std",
       "--target", "armv6k-nintendo-3ds" >>
    \o SelectSeq(rest, LAMBDA a : a # "--release")

\* 116-123
CargoArgs(rest) ==
    << "build", "-Z", "unstable-options", "-Z", "build-std",
       "--target", "armv6k-nintendo-3ds" >> \o rest

\* mutation of BuildElfSpawn: the flags put into the driver's own environment
\* (env::set_var) instead of the Command's
BuildElfSpawnSetVar ==
    /\ pc = "build_elf"
    /\ env' = [env EXCEPT !.RUSTFLAGS = Some(RustFlags(env))]
    /\ Spawn("A", "cargo", CargoArgs(args), Some(RustFlags(env)), "wait_A")
    /\ UNCHANGED << dateVars, probe_rustflags >>
    /\ UNCHANGED << argv, rustc_version, optimization_level, must_link, args,
                    metadata, icon_exists, romfs_readable, app_conf >>

BuildElfSpawn ==
    /\ pc = "build_elf"
    /\ Spawn("A", "cargo", CargoArgs(args), Some(RustFlags(env)), "wait_A")
    /\ UNCHANGED << dateVars, probe_rustflags >>
    /\ UNCHANGED << argv, env, rustc_version, optimization_level, must_link, args,
                    metadata, icon_exists, romfs_readable, app_conf >>

BuildElfWait ==
    /\ pc = "wait_A"
    /\ Wait("A", MainAfter("build_elf", must_link))
    /\ UNCHANGED << dateVars, probe_rustflags >>
    /\ UNCHANGED << argv, env, rustc_version, optimization_level, must_link, args,
                    metadata, icon_exists, romfs_readable, app_conf >>

(***************************************************************************)
(* Project probe: get_metadata (143-164).  MetadataCommand::exec runs      *)
(* `cargo metadata` and blocks on it, so the query is a step of its own.   *)
(***************************************************************************)
GetMetadataExec ==
    /\ pc = "get_metadata"
    /\ log' = Append(log, Ev("Probe", "begin"))
    /\ pc' = "wait_metadata"
    /\ probe_rustflags' = Some(InheritedRustflags(env))
    /\ UNCHANGED dateVars
    /\ UNCHANGED << argv, env, rustc_version, optimization_level, must_link, args,
                    metadata, icon_exists, romfs_readable, app_conf, child, term,
                    exit_code >>

\* mutation of DescriptionOf: an empty description replaced too
DescriptionOfEmptyToo(d) == IF d = None \/ d = Some("") THEN "Homebrew Application" ELSE d[1]

\* 161: description.clone().unwrap_or(String::from("Homebrew Application"))
DescriptionOf(d) == IF d = None THEN "Homebrew Application" ELSE d[1]

\* 153: format!("{}/libctru/default_icon.png", devkitpro)
DefaultIcon(devkitpro) == devkitpro \o "/libctru/default_icon.png"

\* mutation of IconOf: an unset DEVKITPRO read as the empty string
IconOfNoDevkitproNeeded(icon, e) ==
    IF icon THEN Some("./icon.png")
    ELSE Some(DefaultIcon(IF e.DEVKITPRO = None THEN "" ELSE e.DEVKITPRO[1]))

\* mutation of IconOf: DEVKITPRO unwrapped before ./icon.png is looked at
IconOfDevkitproFirst(icon, e) ==
    IF e.DEVKITPRO = None THEN None
    ELSE IF icon THEN Some("./icon.png")
    ELSE Some(DefaultIcon(e.DEVKITPRO[1]))

\* 150-156: the icon path; None when env::var("DEVKITPRO").unwrap() panics
IconOf(icon, e) ==
    IF icon THEN Some("./icon.png")
    ELSE IF e.DEVKITPRO = None THEN None
    ELSE Some(DefaultIcon(e.DEVKITPRO[1]))

\* what fs::File::open("./icon.png") can meet
IconStates == {"yes", "no", "unreadable"}

\* 152: File::open is Ok only for a file that is there and can be opened
IconOpens(found) == found = "yes"

GetMetadata ==
    /\ pc = "wait_metadata"
    /\ \E m \in MetadataResults, found \in IconStates :
       LET icon == IconOpens(found) IN
         /\ metadata' = m
         /\ IF m.result # "ok"
            THEN \* expect("Failed to get cargo metadata"), expect("No root crate found")
                 Panic /\ UNCHANGED << icon_exists, app_conf, log >>
            ELSE /\ icon_exists' = found
                 /\ IF IconOf(icon, env) = None
                    THEN \* env::var("DEVKITPRO").unwrap()
                         Panic /\ UNCHANGED << app_conf, log >>
                    ELSE IF m.authors = << >>
                    THEN \* root_crate.authors[0]
                         Panic /\ UNCHANGED << app_conf, log >>
                    ELSE /\ app_conf' =
                              [name |-> m.name,
                               author |-> m.authors[1],
                               description |-> DescriptionOf(m.description),
                               icon |-> IconOf(icon, env)[1]]
                         /\ log' = Append(log, Ev("Probe", "end"))
                         /\ pc' = MainAfter("get_metadata", must_link)
                         /\ UNCHANGED << term, exit_code >>
    /\ UNCHANGED << dateVars, probe_rustflags >>
    /\ UNCHANGED << argv, env, rustc_version, optimization_level, must_link, args,
                    romfs_readable, child >>

(***************************************************************************)
(* Stages B and C: build_3dsx (166-218).                                   *)
(***************************************************************************)
\* 173
SmdhOutPath(opt_lvl, name) ==
    "./target/armv6k-nintendo-3ds/" \o opt_lvl \o "/" \o name \o ".smdh"

\* mutation of SmdhtoolArgs: author and description exchanged
SmdhtoolArgsSwapped(config, opt_lvl) ==
    << "--create", config.name, config.author, config.description, config.icon,
       SmdhOutPath(opt_lvl, config.name) >>

\* 168-173
SmdhtoolArgs(config, opt_lvl) ==
    << "--create", config.name, config.description, config.author, config.icon,
       SmdhOutPath(opt_lvl, config.name) >>

\* 193
ElfPath(opt_lvl, name) ==
    "./target/armv6k-nintendo-3ds/" \o opt_lvl \o "/" \o name \o ".elf"

\* 194
Out3dsxPath(opt_lvl, name) ==
    "./target/armv6k-nintendo-3ds/" \o opt_lvl \o "/" \o name \o ".3dsx"

\* mutation of SmdhFlag: the optimization level not used
SmdhFlagDebugOnly(opt_lvl, name) ==
    "--smdh=./target/armv6k-nintendo-3ds/debug/" \o name \o ".smdh"

\* 195
SmdhFlag(opt_lvl, name) ==
    "--smdh=./target/armv6k-nintendo-3ds/" \o opt_lvl \o "/" \o name \o ".smdh"

\* 199: the argument holds the two quote characters
RomfsArg == "--romfs=\"./romfs\""

\* 193-200
Tool3dsxArgs(config, opt_lvl, romfs) ==
    << ElfPath(opt_lvl, config.name), Out3dsxPath(opt_lvl, config.name),
       SmdhFlag(opt_lvl, config.name) >>
    \o (IF romfs THEN << RomfsArg >> ELSE << >>)

Build3dsxSpawnSmdhtool ==
    /\ pc = "build_3dsx"
    /\ Spawn("B", "smdhtool", SmdhtoolArgs(app_conf, optimization_level),
             InheritedRustflags(env), "wait_B")
    /\ UNCHANGED << dateVars, probe_rustflags >>
    /\ UNCHANGED << argv, env, rustc_version, optimization_level, must_link, args,
                    metadata, icon_exists, romfs_readable, app_conf >>

Build3dsxWaitSmdhtool ==
    /\ pc = "wait_B"
    /\ Wait("B", "spawn_C")
    /\ UNCHANGED << dateVars, probe_rustflags >>
    /\ UNCHANGED << argv, env, rustc_version, optimization_level, must_link, args,
                    metadata, icon_exists, romfs_readable, app_conf >>

Build3dsxSpawn3dsxtool ==
    /\ pc = "spawn_C"
    /\ \E romfs \in BOOLEAN :
         /\ romfs_readable' = IF romfs THEN "yes" ELSE "no"
         /\ Spawn("C", "3dsxtool", Tool3dsxArgs(app_conf, optimization_level, romfs),
                  InheritedRustflags(env), "wait_C")
    /\ UNCHANGED << dateVars, probe_rustflags >>
    /\ UNCHANGED << argv, env, rustc_version, optimization_level, must_link, args,
                    metadata, icon_exists, app_conf >>

Build3dsxWait3dsxtool ==
    /\ pc = "wait_C"
    /\ Wait("C", MainAfter("build_3dsx", must_link))
    /\ UNCHANGED << dateVars, probe_rustflags >>
    /\ UNCHANGED << argv, env, rustc_version, optimization_level, must_link, args,
                    metadata, icon_exists, romfs_readable, app_conf >>

(***************************************************************************)
(* Uploader: link (220-239), and main's return.                            *)
(***************************************************************************)
\* 222
LinkArgs(name, opt_lvl) ==
    << "./target/armv6k-nintendo-3ds/" \o opt_lvl \o "/" \o name \o ".3dsx" >>

LinkSpawn ==
    /\ pc = "link"
    /\ Spawn("U", "3dslink", LinkArgs(app_conf.name, optimization_level),
             InheritedRustflags(env), "wait_U")
    /\ UNCHANGED << dateVars, probe_rustflags >>
    /\ UNCHANGED << argv, env, rustc_version, optimization_level, must_link, args,
                    metadata, icon_exists, romfs_readable, app_conf >>

LinkWait ==
    /\ pc = "wait_U"
    /\ Wait("U", MainAfter("link", must_link))
    /\ UNCHANGED << dateVars, probe_rustflags >>
    /\ UNCHANGED << argv, env, rustc_version, optimization_level, must_link, args,
                    metadata, icon_exists, romfs_readable, app_conf >>

\* 76: main returns and the process exits with 0
MainReturn ==
    /\ pc = "return"
    /\ pc' = "exited"
    /\ term' = "return"
    /\ exit_code' = 0
    /\ UNCHANGED << dateVars, probe_rustflags >>
    /\ UNCHANGED << argv, env, rustc_version, optimization_level, must_link, args,
                    metadata, icon_exists, romfs_readable, app_conf, child, log >>

Next ==
    \/ VersionMetaQuery
    \/ CheckRustVersion
    \/ ParseArgs
    \/ BuildElfSpawn
    \/ BuildElfWait
    \/ GetMetadataExec
    \/ GetMetadata
    \/ Build3dsxSpawnSmdhtool
    \/ Build3dsxWaitSmdhtool
    \/ Build3dsxSpawn3dsxtool
    \/ Build3dsxWait3dsxtool
    \/ LinkSpawn
    \/ LinkWait
    \/ MainReturn

Spec == Init /\ [][Next]_vars

(***************************************************************************)
(* CommitDate on its own: parse applied to a text, Display to the result.  *)
(* The texts are up to MaxDatePieces pieces joined by dashes.              *)
(***************************************************************************)
DatePieces ==
    { << >>, << "1" >>, << "0", "1" >>, << "1", "0" >>, << "2", "0", "2", "1" >>,
      << "+", "1" >>, << "x" >>,
      << "9", "9", "9", "9", "9", "9", "9", "9", "9", "9" >> }

RECURSIVE JoinedTexts(_)
\* the texts of exactly n pieces
JoinedTexts(n) ==
    IF n = 1 THEN DatePieces
    ELSE { t \o << "-" >> \o q : t \in JoinedTexts(n - 1), q \in DatePieces }

DateTexts == UNION { JoinedTexts(n) : n \in 1..MaxDatePieces }

InitDate ==
    /\ pc = "version_meta"
    /\ argv = << ProgramName >>
    /\ env = [RUSTFLAGS |-> None, DEVKITPRO |-> None]
    /\ rustc_version = None
    /\ optimization_level = ""
    /\ must_link = FALSE
    /\ args = << >>
    /\ metadata = MetadataUnread
    /\ icon_exists = "unread"
    /\ romfs_readable = "unread"
    /\ app_conf = NoConfig
    /\ child = [k \in Stages |-> NoChild]
    /\ log = << >>
    /\ term = "running"
    /\ exit_code = NoExitCode
    /\ probe_rustflags = None
    /\ date_pc = "text"
    /\ date_text \in DateTexts
    /\ date_parsed = None
    /\ date_shown = << >>

mainVars == << pc, argv, env, rustc_version, optimization_level, must_link, args,
               metadata, icon_exists, romfs_readable, app_conf, child, log, term,
               exit_code, probe_rustflags >>

DateParse ==
    /\ date_pc = "text"
    /\ date_parsed' = CommitDateParse(date_text)
    /\ date_pc' = "parsed"
    /\ UNCHANGED << date_text, date_shown, mainVars >>

DateDisplay ==
    /\ date_pc = "parsed"
    /\ date_parsed # None
    /\ date_shown' = CommitDateDisplay(date_parsed[1])
    /\ date_pc' = "shown"
    /\ UNCHANGED << date_text, date_parsed, mainVars >>

NextDate == DateParse \/ DateDisplay

SpecDate == InitDate /\ [][NextDate]_vars

(***************************************************************************)
(* Vocabulary of the properties.                                           *)
(***************************************************************************)
\* the child process of stage k exists or has existed
Spawned(k) == child[k].state \in {"running", "exited"}

\* stage k's child terminated successfully
Succeeded(k) == child[k].state = "exited" /\ child[k].status = Some([code |-> Some(0)])

\* stage k's child terminated with a non-zero code or by a signal
Failed(k) == child[k].state = "exited" /\ child[k].status # Some([code |-> Some(0)])

StageRank(k) == CASE k = "A" -> 1 [] k = "B" -> 2 [] k = "C" -> 3 [] k = "U" -> 4

Logged(c, e) == \E i \in 1..Len(log) : log[i] = Ev(c, e)

Count(c, e) == Cardinality({ i \in 1..Len(log) : log[i] = Ev(c, e) })

GatePassed == Logged("Gate", "end")

ProbeStarted == Logged("Probe", "begin")

ProbeSucceeded == Logged("Probe", "end")

Verb == Command(argv)

VerbValid == Verb = Some("build") \/ Verb = Some("link")

(***************************************************************************)
(* C1  Failure propagation.  Whenever the child of a stage K (A, B, C or   *)
(* the uploader) has terminated with a non-zero code c, the driver has     *)
(* exited with c; whenever it was killed by a signal, the driver has       *)
(* exited with 1; and in both cases no later stage was spawned or even     *)
(* attempted, and the probe, which follows Stage A, was not started after  *)
(* a failed Stage A.                                                       *)
(***************************************************************************)
C1_FailurePropagation ==
    \A k \in Stages :
      Failed(k) =>
        /\ pc = "exited" /\ term = "exit"
        /\ LET code == child[k].status[1].code IN
           exit_code = IF code = None THEN 1 ELSE code[1]
        /\ exit_code # 0
        /\ \A j \in Stages : StageRank(j) > StageRank(k) => child[j].state = "none"
        /\ (k = "A" => ~ProbeStarted)

\* Stage B exited with code 2 and the driver exited with 2
C1_Witness ==
    /\ child["B"].state = "exited"
    /\ child["B"].status = Some([code |-> Some(2)])
    /\ pc = "exited" /\ exit_code = 2

\* the uploader was killed by a signal and the driver exited with 1
C1_WitnessSignal ==
    /\ child["U"].state = "exited"
    /\ child["U"].status = Some([code |-> None])
    /\ pc = "exited" /\ exit_code = 1

(***************************************************************************)
(* C2  Stage ordering.  As stated: the components run in the order Gate,   *)
(* Probe, Stage A, Stage B, Stage C, uploader, so the probe has completed  *)
(* whenever Stage A has been spawned.                                      *)
(***************************************************************************)
ClaimedRank(c) ==
    CASE c = "Gate" -> 0 [] c = "Probe" -> 1 [] c = "A" -> 2
      [] c = "B" -> 3 [] c = "C" -> 4 [] c = "U" -> 5

C2_ProbeBeforeStageA ==
    /\ \A i, j \in 1..Len(log) : i < j => ClaimedRank(log[i].c) <= ClaimedRank(log[j].c)
    /\ Logged("A", "begin") => ProbeSucceeded

(***************************************************************************)
(* C2, amended.  The components run in the order Gate, Stage A, Probe,     *)
(* Stage B, Stage C, uploader: the probe starts only after Stage A has     *)
(* exited successfully.  Each component runs at most once, a component     *)
(* that began is the last entry of the log or is directly followed by its  *)
(* own end, and a component begins only after every component before it    *)
(* (the uploader apart, which is optional) has ended.                      *)
(***************************************************************************)
CodeRank(c) ==
    CASE c = "Gate" -> 0 [] c = "A" -> 1 [] c = "Probe" -> 2
      [] c = "B" -> 3 [] c = "C" -> 4 [] c = "U" -> 5

Components == {"Gate", "A", "Probe", "B", "C", "U"}

C2_StageOrder ==
    /\ \A i, j \in 1..Len(log) : i < j => CodeRank(log[i].c) <= CodeRank(log[j].c)
    /\ \A c \in Components : Count(c, "begin") <= 1 /\ Count(c, "end") <= 1
    /\ \A i \in 1..Len(log) :
         /\ log[i].e = "begin" => (i = Len(log) \/ log[i + 1] = Ev(log[i].c, "end"))
         /\ log[i].e = "end" => (i > 1 /\ log[i - 1] = Ev(log[i].c, "begin"))
         /\ log[i].e = "begin" =>
              \A c \in Components : CodeRank(c) < CodeRank(log[i].c) => Logged(c, "end")
    /\ ProbeStarted => Succeeded("A")

\* a link run in which all six components ran to their end
C2_Witness ==
    /\ Len(log) = 12
    /\ log[3] = Ev("A", "begin") /\ log[5] = Ev("Probe", "begin")
    /\ log[12] = Ev("U", "end")

NoToolRun == (\A k \in Stages : child[k].state = "none") /\ ~ProbeStarted

(***************************************************************************)
(* C3  Invalid verb.  As stated: when the verb is missing or is neither    *)
(* `build` nor `link`, the driver ends with exit code 1, having run no     *)
(* build stage, no metadata probe and no uploader.  Stated for the runs    *)
(* that reach verb parsing, those whose toolchain the gate accepted.       *)
(***************************************************************************)
C3_InvalidVerbExitsOne ==
    (~VerbValid /\ GatePassed /\ pc = "exited") => (exit_code = 1 /\ NoToolRun)

(***************************************************************************)
(* C3, amended.  When the verb is missing or is neither `build` nor        *)
(* `link`, the driver never runs a build stage, the metadata probe or the  *)
(* uploader and never gets past verb parsing; once the toolchain gate has  *)
(* passed it ends by a panic, whose exit status is 101, not 1.  Exit code  *)
(* 1 occurs only when the gate itself rejected the toolchain.              *)
(***************************************************************************)
C3_InvalidVerbPanics ==
    ~VerbValid =>
      /\ NoToolRun
      /\ pc \in {"version_meta", "check_rust_version", "parse_args", "exited"}
      /\ (pc = "exited" /\ GatePassed) => (term = "panic" /\ exit_code = PanicExitCode)
      /\ (pc = "exited" /\ ~GatePassed) =>
            \/ term = "panic" /\ exit_code = PanicExitCode
            \/ term = "exit" /\ exit_code = 1 /\ rustc_version # None

\* `cargo 3ds clean` under a toolchain the gate accepted
C3_Witness ==
    /\ Verb = Some("clean")
    /\ GatePassed
    /\ pc = "exited" /\ term = "panic" /\ exit_code = PanicExitCode

\* no verb at all under a toolchain the gate accepted
C3_WitnessMissing ==
    /\ Verb = None
    /\ GatePassed
    /\ pc = "exited" /\ term = "panic"

(***************************************************************************)
(* C4  Verb dispatch.  As stated: the upload tool is spawned in a run if   *)
(* and only if the verb is `link` and Stages A, B and C were each spawned  *)
(* and exited successfully; with `build` it is never spawned and nothing   *)
(* but build stages runs after the probe.                                  *)
(***************************************************************************)
AfterProbeOnlyBuildStages ==
    \A i, j \in 1..Len(log) :
      (i < j /\ log[i] = Ev("Probe", "end")) => log[j].c \in {"A", "B", "C"}

C4_UploadIffLink ==
    /\ Spawned("U") =>
         (Verb = Some("link") /\ Succeeded("A") /\ Succeeded("B") /\ Succeeded("C"))
    /\ (pc = "exited" /\ Verb = Some("link")
          /\ Succeeded("A") /\ Succeeded("B") /\ Succeeded("C")) => Spawned("U")
    /\ Verb = Some("build") => (child["U"].state = "none" /\ AfterProbeOnlyBuildStages)

(***************************************************************************)
(* C4, amended.  The upload tool is spawned only if the verb is `link`     *)
(* and Stages A, B and C were each spawned and exited successfully; in a   *)
(* finished run where the verb is `link` and the three stages succeeded    *)
(* the driver has spawned it, unless the tool could not be started, in     *)
(* which case the driver panicked.  With `build` the upload tool is never  *)
(* spawned nor attempted, and nothing but build stages runs after the      *)
(* probe.                                                                  *)
(***************************************************************************)
C4_UploadIffLinkAndStartable ==
    /\ Spawned("U") =>
         (Verb = Some("link") /\ Succeeded("A") /\ Succeeded("B") /\ Succeeded("C"))
    /\ (pc = "exited" /\ Verb = Some("link")
          /\ Succeeded("A") /\ Succeeded("B") /\ Succeeded("C")) =>
         \/ Spawned("U")
         \/ child["U"].state = "spawn_failed" /\ term = "panic"
    /\ Verb = Some("build") => (child["U"].state = "none" /\ AfterProbeOnlyBuildStages)

\* a link run whose upload tool is running after three successful stages
C4_Witness ==
    /\ Verb = Some("link")
    /\ child["U"].state = "running"
    /\ Succeeded("A") /\ Succeeded("B") /\ Succeeded("C")

\* a build run that ended after three successful stages without an upload
C4_WitnessBuild ==
    /\ Verb = Some("build")
    /\ pc = "exited" /\ Succeeded("C") /\ child["U"].state = "none"

(***************************************************************************)
(* C5  Version gate.  For every reported channel, semver and commit date   *)
(* (absent, or a date with year, month and day), the step that decides     *)
(* the gate exits with code 1, no tool having been run, if the channel is  *)
(* stable or beta, or the semver is below 1.56.0 (a pre-release of 1.56.0  *)
(* is below it), or the commit date is present and before 2021-10-01; in   *)
(* every other case the gate returns and the driver is at verb parsing.    *)
(***************************************************************************)
ReportedDate(v) == CommitDateParse(v.commit_date[1])[1]

DateReadable(v) == v.commit_date = None \/ CommitDateParse(v.commit_date[1]) # None

SemverBelowMinimum(sv) ==
    \/ sv.major * 1000000 + sv.minor * 1000 + sv.patch < 1056000
    \/ sv.major = 1 /\ sv.minor = 56 /\ sv.patch = 0 /\ sv.pre

DateBeforeMinimum(d) == d.year * 10000 + d.month * 100 + d.day < 20211001

MustReject(v) ==
    \/ v.channel \in {"stable", "beta"}
    \/ SemverBelowMinimum(v.semver)
    \/ v.commit_date # None /\ DateBeforeMinimum(ReportedDate(v))

C5_VersionGate ==
    [][ (pc = "check_rust_version" /\ DateReadable(rustc_version[1])) =>
          LET v == rustc_version[1] IN
          /\ MustReject(v) =>
               (pc' = "exited" /\ term' = "exit" /\ exit_code' = 1 /\ NoToolRun')
          /\ ~MustReject(v) =>
               (pc' = "parse_args" /\ term' = "running" /\ GatePassed') ]_vars

\* a recent nightly whose commit is one day too old was turned away with 1
C5_Witness ==
    /\ pc = "exited" /\ term = "exit" /\ exit_code = 1 /\ NoToolRun
    /\ rustc_version # None
    /\ rustc_version[1].channel = "nightly"
    /\ rustc_version[1].semver = [major |-> 1, minor |-> 57, patch |-> 0, pre |-> TRUE]
    /\ rustc_version[1].commit_date # None
    /\ CommitDateParse(rustc_version[1].commit_date[1])
         = Some([year |-> 2021, month |-> 9, day |-> 30])

\* the gate let a toolchain through
C5_WitnessPass == pc = "parse_args" /\ GatePassed /\ term = "running"

\* every child that was spawned has exited with code 0
AllSpawnedSucceeded == \A k \in Stages : Spawned(k) => Succeeded(k)

\* every tool the driver tried to start did start
AllStarted == \A k \in Stages : child[k].state # "spawn_failed"

SpawnedOnce(k) == Count(k, "begin") = 1 /\ Count(k, "end") = 1 /\ Succeeded(k)

SuccessfulRun ==
    /\ term = "return" /\ exit_code = 0
    /\ SpawnedOnce("A") /\ SpawnedOnce("B") /\ SpawnedOnce("C")
    /\ IF Verb = Some("link") THEN SpawnedOnce("U") ELSE child["U"].state = "none"

(***************************************************************************)
(* C6  Exit status on success.  As stated: a finished run in which the     *)
(* gate passed, the verb is `build` or `link`, the probe succeeded and     *)
(* every spawned child exited with code 0 has exit code 0, Stages A, B and *)
(* C spawned once each and the uploader once under `link`; and no other    *)
(* run exits with 0.                                                       *)
(***************************************************************************)
C6_ExitZeroIffAllSucceed ==
    pc = "exited" =>
      /\ (GatePassed /\ VerbValid /\ ProbeSucceeded /\ AllSpawnedSucceeded) => SuccessfulRun
      /\ exit_code = 0 => (GatePassed /\ VerbValid /\ ProbeSucceeded /\ AllSpawnedSucceeded)

(***************************************************************************)
(* C6, amended.  A finished run in which the gate passed, the verb is      *)
(* `build` or `link`, the probe succeeded, every tool the driver tried to  *)
(* spawn could be started and every spawned child exited with code 0 has   *)
(* exit code 0, with Stages A, B and C spawned exactly once each and the   *)
(* uploader exactly once under `link` and not at all under `build`; no     *)
(* other run exits with 0.  (A tool that cannot be started makes the       *)
(* driver panic, whose exit status is 101.)                                *)
(***************************************************************************)
C6_ExitZeroIffAllStartAndSucceed ==
    pc = "exited" =>
      /\ (GatePassed /\ VerbValid /\ ProbeSucceeded /\ AllStarted /\ AllSpawnedSucceeded)
           => SuccessfulRun
      /\ exit_code = 0 =>
           (GatePassed /\ VerbValid /\ ProbeSucceeded /\ AllStarted /\ AllSpawnedSucceeded)
      /\ (~AllStarted) => (term = "panic" /\ exit_code = PanicExitCode)

\* a link run that returned 0 after four successful children
C6_Witness ==
    /\ pc = "exited" /\ exit_code = 0 /\ Verb = Some("link")
    /\ Succeeded("A") /\ Succeeded("B") /\ Succeeded("C") /\ Succeeded("U")

(***************************************************************************)
(* C7  Probe errors.  As stated: when the probe cannot produce a config    *)
(* record (the metadata query fails, there is no root package, or          *)
(* ./icon.png is absent and DEVKITPRO is unset), the driver ends with exit *)
(* code 1 and spawns neither Stage B, Stage C nor the uploader.            *)
(***************************************************************************)
ProbeCannotProduce ==
    \/ metadata.result \in {"error", "no_root"}
    \/ metadata.result = "ok" /\ icon_exists = "no" /\ env.DEVKITPRO = None

NoStageAfterProbe == \A k \in {"B", "C", "U"} : child[k].state = "none"

C7_ProbeErrorExitsOne ==
    ProbeCannotProduce => (pc = "exited" /\ exit_code = 1 /\ NoStageAfterProbe)

(***************************************************************************)
(* C7, amended.  When the probe cannot produce a config record (the        *)
(* metadata query fails, there is no root package, or ./icon.png is absent *)
(* and DEVKITPRO is unset), the driver ends by a panic, whose exit status  *)
(* is 101, not 1; Stage A has run and succeeded before, and neither Stage  *)
(* B, Stage C nor the uploader is spawned or attempted.                    *)
(***************************************************************************)
C7_ProbeErrorPanics ==
    ProbeCannotProduce =>
      /\ pc = "exited" /\ term = "panic" /\ exit_code = PanicExitCode
      /\ ~ProbeSucceeded
      /\ Succeeded("A")
      /\ NoStageAfterProbe

\* no ./icon.png and no DEVKITPRO: the probe panicked
C7_Witness ==
    /\ metadata.result = "ok" /\ icon_exists = "no" /\ env.DEVKITPRO = None
    /\ pc = "exited" /\ term = "panic"

\* the workspace has no root package: the probe panicked
C7_WitnessNoRoot == metadata.result = "no_root" /\ pc = "exited" /\ term = "panic"

(***************************************************************************)
(* C8  RUSTFLAGS merge.  For every caller-supplied RUSTFLAGS value X,      *)
(* Stage A's RUSTFLAGS is X, one space, then the four link arguments.      *)
(***************************************************************************)
C8_RustflagsSeparated ==
    (Spawned("A") /\ env.RUSTFLAGS # None) =>
      child["A"].rustflags = Some(env.RUSTFLAGS[1] \o " " \o LINK_ARGS)

(***************************************************************************)
(* C9  Romfs inclusion.  Stage C's arguments contain `--romfs=./romfs`,    *)
(* exactly these characters, if and only if ./romfs was a readable         *)
(* directory; without it Stage C is spawned with exactly the ELF path,     *)
(* the 3DSX path and the --smdh= flag.                                     *)
(***************************************************************************)
C9_RomfsArgument ==
    Spawned("C") =>
      /\ ("--romfs=./romfs" \in Range(child["C"].argv)) <=> (romfs_readable = "yes")
      /\ romfs_readable = "no" =>
           child["C"].argv = << ElfPath(optimization_level, app_conf.name),
                                Out3dsxPath(optimization_level, app_conf.name),
                                SmdhFlag(optimization_level, app_conf.name) >>

(***************************************************************************)
(* C10  Artifact path consistency.  With L the optimization segment and N  *)
(* the root package's name, the SMDH path given to Stage B, the ELF, 3DSX  *)
(* and --smdh= paths given to Stage C and the 3DSX path given to the       *)
(* uploader are ./target/armv6k-nintendo-3ds/L/N.<ext> for the same L and  *)
(* N: Stage C reads the SMDH Stage B wrote, the uploader sends the 3DSX    *)
(* Stage C wrote.                                                          *)
(***************************************************************************)
Canonical(ext) ==
    "./target/armv6k-nintendo-3ds/" \o optimization_level \o "/" \o metadata.name
      \o "." \o ext

C10_ArtifactPaths ==
    /\ Spawned("B") =>
         /\ optimization_level \in {"debug", "release"}
         /\ metadata.name \in PackageNames
         /\ child["B"].argv[Len(child["B"].argv)] = Canonical("smdh")
    /\ Spawned("C") =>
         /\ child["C"].argv[1] = Canonical("elf")
         /\ child["C"].argv[2] = Canonical("3dsx")
         /\ child["C"].argv[3] = "--smdh=" \o Canonical("smdh")
         /\ child["C"].argv[3] = "--smdh=" \o child["B"].argv[Len(child["B"].argv)]
    /\ Spawned("U") =>
         /\ child["U"].argv = << Canonical("3dsx") >>
         /\ child["U"].argv[1] = child["C"].argv[2]

\* a release link of package app: all three tools were given their paths
C10_Witness ==
    /\ Spawned("U")
    /\ optimization_level = "release" /\ metadata.name = "app"
    /\ child["U"].argv = << "./target/armv6k-nintendo-3ds/release/app.3dsx" >>

(***************************************************************************)
(* C11  Optimization path.  The path segment used by Stages B, C and the   *)
(* uploader is `release` exactly when the string `--release`, in this      *)
(* spelling, is at some position of the process's argument vector          *)
(* (the two prefix positions included), and `debug` in every other case.   *)
(***************************************************************************)
ReleaseAsked == \E i \in 1..Len(argv) : argv[i] = "--release"

ExpectedSegment == IF ReleaseAsked THEN "release" ELSE "debug"

PathUnder(segment, ext) ==
    "./target/armv6k-nintendo-3ds/" \o segment \o "/" \o metadata.name \o "." \o ext

C11_OptimizationPath ==
    /\ Spawned("B") =>
         child["B"].argv[Len(child["B"].argv)] = PathUnder(ExpectedSegment, "smdh")
    /\ Spawned("C") =>
         /\ child["C"].argv[1] = PathUnder(ExpectedSegment, "elf")
         /\ child["C"].argv[2] = PathUnder(ExpectedSegment, "3dsx")
         /\ child["C"].argv[3] = "--smdh=" \o PathUnder(ExpectedSegment, "smdh")
    /\ Spawned("U") => child["U"].argv[1] = PathUnder(ExpectedSegment, "3dsx")

\* `cargo-3ds --release build`: the flag stands in the prefix only, yet
\* Stage C works under release/
C11_Witness ==
    /\ argv = << ProgramName, "--release", "build" >>
    /\ Spawned("C")
    /\ child["C"].argv[2] = "./target/armv6k-nintendo-3ds/release/hello.3dsx"

\* `--Release` alone does not select release
C11_WitnessCase ==
    /\ argv = << ProgramName, "3ds", "link", "--Release" >>
    /\ Spawned("U")
    /\ child["U"].argv[1] = "./target/armv6k-nintendo-3ds/debug/app.3dsx"

(***************************************************************************)
(* C12  Flag passthrough.  Stage A's argument vector is `build -Z          *)
(* unstable-options -Z build-std --target armv6k-nintendo-3ds` followed by *)
(* every argument that came after the verb, unmodified and in the same     *)
(* order; the verb and the two prefix positions are not passed.            *)
(***************************************************************************)
C12_FlagPassthrough ==
    Spawned("A") =>
      LET a == child["A"].argv IN
      /\ child["A"].program = "cargo"
      /\ Len(a) = 7 + (Len(argv) - 3)
      /\ a[1] = "build" /\ a[2] = "-Z" /\ a[3] = "unstable-options"
      /\ a[4] = "-Z" /\ a[5] = "build-std"
      /\ a[6] = "--target" /\ a[7] = "armv6k-nintendo-3ds"
      /\ \A i \in 1..(Len(argv) - 3) : a[7 + i] = argv[3 + i]

\* two different user arguments, --release among them, reach cargo in order
C12_Witness ==
    /\ argv = << ProgramName, "3ds", "build", "--verbose", "--release" >>
    /\ Spawned("A")
    /\ Len(child["A"].argv) = 9
    /\ child["A"].argv[8] = "--verbose" /\ child["A"].argv[9] = "--release"

(***************************************************************************)
(* C13  Commit-date round trip.  As stated: parse returns a date for every *)
(* text of the form YYYY-MM-DD (four, two and two digits) and None for     *)
(* every other text, and the parsed date written by Display is the text    *)
(* again, for every text parse accepts.                                    *)
(***************************************************************************)
IsCanonical(t) ==
    /\ Len(t) = 10
    /\ t[5] = "-" /\ t[8] = "-"
    /\ \A i \in {1, 2, 3, 4, 6, 7, 9, 10} : IsDigit(t[i])

C13_ParseExactRoundTrip ==
    /\ date_pc \in {"parsed", "shown"} => ((date_parsed # None) <=> IsCanonical(date_text))
    /\ date_pc = "shown" => date_shown = date_text

(***************************************************************************)
(* C13, amended.  parse returns a date for every text of the form          *)
(* YYYY-MM-DD, and for every such text Display of the parsed date is the   *)
(* text again.  parse returns None for every text with fewer than two      *)
(* dashes, but it also accepts texts of other forms (fewer or more digits, *)
(* a leading +, pieces after the third): for those Display writes the      *)
(* date zero-padded to at least four, two and two digits, which need not   *)
(* be the text, which parse reads back as the same date, and which has the *)
(* form YYYY-MM-DD whenever the year is within 0..9999 and month and day   *)
(* within 0..99.                                                           *)
(***************************************************************************)
Dashes(t) == Cardinality({ i \in 1..Len(t) : t[i] = "-" })

FitsWidths(d) == d.year \in 0..9999 /\ d.month \in 0..99 /\ d.day \in 0..99

C13_CanonicalRoundTrip ==
    /\ (date_pc \in {"parsed", "shown"} /\ IsCanonical(date_text)) => date_parsed # None
    /\ (date_pc \in {"parsed", "shown"} /\ Dashes(date_text) < 2) => date_parsed = None
    /\ (date_pc = "shown" /\ IsCanonical(date_text)) => date_shown = date_text
    /\ date_pc = "shown" =>
         /\ CommitDateParse(date_shown) = date_parsed
         /\ FitsWidths(date_parsed[1]) => IsCanonical(date_shown)

\* 2021-10-01 was parsed and written back as itself
C13_Witness ==
    /\ date_pc = "shown"
    /\ date_text = << "2", "0", "2", "1", "-", "1", "0", "-", "0", "1" >>
    /\ date_parsed = Some([year |-> 2021, month |-> 10, day |-> 1])
    /\ date_shown = date_text

\* 2021-1-1 was accepted and written back as 2021-01-01
C13_WitnessLenient ==
    /\ date_pc = "shown"
    /\ date_text = << "2", "0", "2", "1", "-", "1", "-", "1" >>
    /\ date_shown = << "2", "0", "2", "1", "-", "0", "1", "-", "0", "1" >>

(***************************************************************************)
(* C14  Description default.  As stated: the config's description is the   *)
(* root package's description when that is present and non-empty, and      *)
(* `Homebrew Application` when it is absent or empty, so the description   *)
(* given to Stage B is never empty.                                        *)
(***************************************************************************)
C14_DescriptionNeverEmpty ==
    /\ ProbeSucceeded =>
         app_conf.description =
           IF metadata.description = None \/ metadata.description = Some("")
           THEN "Homebrew Application" ELSE metadata.description[1]
    /\ Spawned("B") => child["B"].argv[3] # ""

(***************************************************************************)
(* C14, amended.  The config's description is the root package's           *)
(* description whenever that is present, the empty string included, and    *)
(* `Homebrew Application` only when it is absent; the description given to *)
(* Stage B is the config's, and is empty exactly when the package's        *)
(* description is the empty string.                                        *)
(***************************************************************************)
C14_DescriptionDefault ==
    /\ ProbeSucceeded =>
         app_conf.description =
           IF metadata.description = None
           THEN "Homebrew Application" ELSE metadata.description[1]
    /\ Spawned("B") =>
         /\ child["B"].argv[3] = app_conf.description
         /\ (child["B"].argv[3] = "" <=> metadata.description = Some(""))

\* a package with an empty description: Stage B was given the empty string
C14_Witness ==
    /\ metadata.description = Some("")
    /\ Spawned("B")
    /\ child["B"].argv[3] = ""

\* a package without a description: Stage B was given the placeholder
C14_WitnessAbsent ==
    /\ metadata.result = "ok" /\ metadata.description = None
    /\ Spawned("B")
    /\ child["B"].argv[3] = "Homebrew Application"

(***************************************************************************)
(* C15  Stage B argument vector.  As stated: the SMDH packer is given      *)
(* exactly five arguments, the name, the description, the author, the icon *)
(* path and the output path, and nothing before or after them.             *)
(***************************************************************************)
FiveSmdhArguments ==
    << metadata.name,
       IF metadata.description = None THEN "Homebrew Application"
       ELSE metadata.description[1],
       metadata.authors[1],
       app_conf.icon,
       "./target/armv6k-nintendo-3ds/" \o optimization_level \o "/" \o metadata.name
         \o ".smdh" >>

C15_FiveArguments ==
    Spawned("B") => (child["B"].program = "smdhtool" /\ child["B"].argv = FiveSmdhArguments)

(***************************************************************************)
(* C15, amended.  The SMDH packer is given exactly six arguments: the      *)
(* flag `--create`, then the name, the description, the author, the icon   *)
(* path and the output path ./target/armv6k-nintendo-3ds/L/N.smdh, in this *)
(* order; nothing else precedes or follows.                                *)
(***************************************************************************)
C15_CreateThenFiveArguments ==
    Spawned("B") =>
      /\ child["B"].program = "smdhtool"
      /\ child["B"].argv = << "--create" >> \o FiveSmdhArguments

\* smdhtool running for package hello by alice and bob
C15_Witness ==
    /\ child["B"].state = "running"
    /\ child["B"].argv = << "--create", "hello", "A game", "alice", "./icon.png",
                            "./target/armv6k-nintendo-3ds/debug/hello.smdh" >>
    /\ metadata.authors = << "alice", "bob" >>

(***************************************************************************)
(* C16  Icon fallback.  As stated: the config's icon is ./icon.png         *)
(* whenever ./icon.png exists at probe time and                            *)
(* <DEVKITPRO>/libctru/default_icon.png whenever it does not, and an unset *)
(* DEVKITPRO is no error when ./icon.png exists.                           *)
(***************************************************************************)
IconThere == icon_exists \in {"yes", "unreadable"}

ProbeBrokeOnIcon ==
    /\ pc = "exited" /\ term = "panic"
    /\ metadata.result = "ok" /\ metadata.authors # << >>
    /\ ~ProbeSucceeded

C16_IconWhenExists ==
    /\ (ProbeSucceeded /\ IconThere) => app_conf.icon = "./icon.png"
    /\ (ProbeSucceeded /\ icon_exists = "no") =>
         app_conf.icon = env.DEVKITPRO[1] \o "/libctru/default_icon.png"
    /\ IconThere => ~ProbeBrokeOnIcon

(***************************************************************************)
(* C16, amended.  The config's icon is ./icon.png whenever ./icon.png can  *)
(* be opened at probe time, and <DEVKITPRO>/libctru/default_icon.png       *)
(* whenever it cannot, be it absent or there but not openable; DEVKITPRO   *)
(* is read only in the second case, so an unset DEVKITPRO is no error when *)
(* ./icon.png can be opened, and makes the probe panic when it cannot.     *)
(***************************************************************************)
C16_IconWhenOpens ==
    /\ (ProbeSucceeded /\ icon_exists = "yes") => app_conf.icon = "./icon.png"
    /\ (ProbeSucceeded /\ icon_exists \in {"no", "unreadable"}) =>
         /\ env.DEVKITPRO # None
         /\ app_conf.icon = env.DEVKITPRO[1] \o "/libctru/default_icon.png"
    /\ icon_exists = "yes" => ~ProbeBrokeOnIcon
    /\ (icon_exists \in {"no", "unreadable"} /\ env.DEVKITPRO = None) => ~ProbeSucceeded

\* ./icon.png opened and DEVKITPRO unset: the probe succeeded with ./icon.png
C16_Witness ==
    /\ icon_exists = "yes" /\ env.DEVKITPRO = None
    /\ ProbeSucceeded /\ app_conf.icon = "./icon.png"

\* ./icon.png absent: the probe fell back to the SDK's icon
C16_WitnessFallback ==
    /\ icon_exists = "no" /\ ProbeSucceeded
    /\ app_conf.icon = "/opt/devkitpro/libctru/default_icon.png"

(***************************************************************************)
(* C17  One child at a time.  In every reachable state at most one of the  *)
(* children the driver spawned (Stage A, Stage B, Stage C, uploader) is    *)
(* running; while one runs the driver is blocked in its wait, so the next  *)
(* event after a child's start is that child's end, and the driver has     *)
(* never ended while a child is running.                                   *)
(***************************************************************************)
Running(k) == child[k].state = "running"

WaitPc(k) ==
    CASE k = "A" -> "wait_A" [] k = "B" -> "wait_B" [] k = "C" -> "wait_C"
      [] k = "U" -> "wait_U"

C17_OneChildAtATime ==
    /\ Cardinality({ k \in Stages : Running(k) }) <= 1
    /\ \A k \in Stages : Running(k) => pc = WaitPc(k)
    /\ \A k \in Stages : pc = WaitPc(k) => Running(k)
    /\ pc = "exited" => \A k \in Stages : ~Running(k)
    /\ \A i \in 1..Len(log) :
         (log[i].c \in Stages /\ log[i].e = "begin") =>
           \/ i = Len(log) /\ Running(log[i].c)
           \/ i < Len(log) /\ log[i + 1] = Ev(log[i].c, "end")

\* Stage C runs after Stages A and B terminated
C17_Witness ==
    /\ Running("C")
    /\ child["A"].state = "exited" /\ child["B"].state = "exited"
    /\ pc = "wait_C"

\* the driver ended on Stage B's failure: Stage B is no longer running
C17_WitnessExit ==
    /\ pc = "exited" /\ term = "exit"
    /\ Failed("B") /\ child["C"].state = "none"

(***************************************************************************)
(* C18  RUSTFLAGS scope.  The augmented RUSTFLAGS value is in the          *)
(* environment of the Stage A child only: no step of the driver changes    *)
(* the driver's own environment, and the metadata probe, Stage B, Stage C  *)
(* and the uploader run with the caller's RUSTFLAGS, set or unset, while   *)
(* Stage A runs with the caller's value (or nothing) followed by the link  *)
(* arguments.                                                              *)
(***************************************************************************)
Inheritors == {"B", "C", "U"}

C18_ChildEnvironments ==
    /\ Spawned("A") =>
         /\ child["A"].rustflags # None
         /\ child["A"].rustflags # env.RUSTFLAGS
         /\ child["A"].rustflags[1] =
              (IF env.RUSTFLAGS = None THEN "" ELSE env.RUSTFLAGS[1]) \o LINK_ARGS
    /\ \A k \in Inheritors : Spawned(k) => child[k].rustflags = env.RUSTFLAGS
    /\ ProbeStarted => probe_rustflags = Some(env.RUSTFLAGS)

C18_RustflagsScope ==
    /\ [] C18_ChildEnvironments
    /\ [][ env' = env ]_vars

\* the caller set RUSTFLAGS to -O: Stage A ran with the augmented value, the
\* probe and the uploader with -O
C18_Witness ==
    /\ env.RUSTFLAGS = Some("-O")
    /\ Spawned("A") /\ child["A"].rustflags = Some("-O" \o LINK_ARGS)
    /\ probe_rustflags = Some(Some("-O"))
    /\ Spawned("U") /\ child["U"].rustflags = Some("-O")

\* the caller left RUSTFLAGS unset: it is unset for Stage B too
C18_WitnessUnset ==
    /\ env.RUSTFLAGS = None
    /\ Spawned("A") /\ child["A"].rustflags = Some(LINK_ARGS)
    /\ Spawned("B") /\ child["B"].rustflags = None

====
